---- MODULE Spec2Model ----
(***************************************************************************)
(* Model of the 8-channel sweep: MeasurementRunner.run (meas_runner.py)    *)
(* driving RelayController (relay.py), DmmClient (dmm.py) and Logger       *)
(* (logger.py).                                                            *)
(*                                                                         *)
(* Voltages are integers in microvolts (the resolution of the "%.6f"       *)
(* formatting used by the code); a float is a record [k, n] whose kind k   *)
(* is "num", "nan", "pinf" or "ninf".                                      *)
(***************************************************************************)
EXTENDS Integers, Sequences, FiniteSets, TLC

\* ------------------------------------------------------------------------
\* Bounds of the exploration
\* ------------------------------------------------------------------------
\* number of non-nominal environment choices (faults, odd replies, odd
\* simulated draws) explored in one sweep
MaxDeviations == 1
\* number of records a Logger driven on its own is given
MaxRows == 3
\* number of times Start is pressed in the window driven on its own
MaxSweeps == 2
\* number of bytes of an unfinished line that the model keeps
MaxLine == 4

\* ------------------------------------------------------------------------
\* Program constants
\* ------------------------------------------------------------------------
total == 8
Micro == 1000000
SimLow == -10
SimHigh == 10

Channels == 0 .. (total - 1)

\* ------------------------------------------------------------------------
\* Python floats
\* ------------------------------------------------------------------------
Num(n) == [k |-> "num", n |-> n]
NaN == [k |-> "nan", n |-> 0]
PosInf == [k |-> "pinf", n |-> 0]
NegInf == [k |-> "ninf", n |-> 0]
Volts(x) == Num(x * Micro)

\* v != v
IsNaN(v) == v.k = "nan"

\* mutant of FloatLe: the comparison made strict
FloatLt(a, b) ==
    IF IsNaN(a) \/ IsNaN(b) THEN FALSE
    ELSE IF a.k = "ninf" THEN b.k # "ninf"
    ELSE IF b.k = "pinf" THEN a.k # "pinf"
    ELSE IF a.k = "pinf" \/ b.k = "ninf" THEN FALSE
    ELSE a.n < b.n

\* a <= b on floats: false as soon as one side is nan
FloatLe(a, b) ==
    IF IsNaN(a) \/ IsNaN(b) THEN FALSE
    ELSE IF a.k = "ninf" \/ b.k = "pinf" THEN TRUE
    ELSE IF a.k = "pinf" \/ b.k = "ninf" THEN FALSE
    ELSE a.n <= b.n

\* ------------------------------------------------------------------------
\* dmm.py: reply bytes and their conversion to a float
\* ------------------------------------------------------------------------
LF == "\n"
CR == "\r"
SP == " "
NonAscii == "xFF"
Digits == {"0", "1", "2", "5", "6"}
DigitVal(c) == CASE c = "0" -> 0 [] c = "1" -> 1 [] c = "2" -> 2
                 [] c = "5" -> 5 [] c = "6" -> 6
Whitespace == {SP, CR, LF}

\* bytes.decode('ascii'): fails on any byte >= 0x80
DecodeOk(bs) == \A k \in 1 .. Len(bs) : bs[k] # NonAscii

RECURSIVE LStrip(_)
LStrip(s) == IF s # <<>> /\ Head(s) \in Whitespace THEN LStrip(Tail(s)) ELSE s

RECURSIVE RStrip(_)
RStrip(s) ==
    IF s # <<>> /\ s[Len(s)] \in Whitespace
    THEN RStrip(SubSeq(s, 1, Len(s) - 1)) ELSE s

\* str.strip()
Strip(s) == RStrip(LStrip(s))

RECURSIVE DigitsValue(_, _)
DigitsValue(s, acc) ==
    IF s = <<>> THEN acc ELSE DigitsValue(Tail(s), 10 * acc + DigitVal(Head(s)))

\* float(line): [ok |-> FALSE] stands for ValueError
ParseFloat(line) ==
    LET s == Strip(line)
        neg == s # <<>> /\ Head(s) = "-"
        body == IF neg THEN Tail(s) ELSE s
    IN  IF body = <<"n", "a", "n">> THEN [ok |-> TRUE, val |-> NaN]
        ELSE IF body = <<"i", "n", "f">>
             THEN [ok |-> TRUE, val |-> IF neg THEN NegInf ELSE PosInf]
        ELSE IF body # <<>> /\ \A k \in 1 .. Len(body) : body[k] \in Digits
             THEN [ok |-> TRUE,
                   val |-> Num((IF neg THEN -1 ELSE 1) * DigitsValue(body, 0) * Micro)]
        ELSE [ok |-> FALSE, val |-> NaN]

\* mutant of Round6: always rounding up past the digit kept
Round6Up(raw) == raw \div 10 + 1

\* f"{v:.6f}" of a value given in tenths of a microvolt, read back by float():
\* round to the nearest microvolt, ties to even
Round6(raw) ==
    LET q == raw \div 10
        r == raw % 10
    IN  IF r < 5 THEN q
        ELSE IF r > 5 THEN q + 1
        ELSE IF q % 2 = 0 THEN q ELSE q + 1

\* ------------------------------------------------------------------------
\* Inputs of a sweep
\* ------------------------------------------------------------------------
Bound(lo, hi) == <<lo, hi>>
DefaultBound == Bound(Volts(SimLow), Volts(SimHigh))
\* the table as init_table fills it
DefaultTable == [c \in Channels |-> DefaultBound]
\* the table after edits: channel 3 narrowed, channel 5 inverted, and a cell of
\* channel 6 left unparsable, for which limits_from_table falls back to
\* (-inf, +inf)
EditedTable ==
    [c \in Channels |->
        CASE c = 3 -> Bound(Volts(5), Volts(6))
          [] c = 5 -> Bound(Volts(6), Volts(5))
          [] c = 6 -> Bound(NegInf, PosInf)
          [] OTHER -> DefaultBound]
LimitTables == {DefaultTable, EditedTable}

\* replies of the instrument to a query, as bytes
NominalReply == <<"5", LF>>
\* marks the end of the bytes of an instrument that never stops sending: the
\* bytes before the mark are sent over and over
More == "..."
StreamReply == <<"5", "6", More>>
OddReplies == {<<"6", LF>>, <<SP, "-", "2", CR, LF>>, <<"n", "a", "n", LF>>,
               <<"x", LF>>, <<NonAscii, LF>>, <<"5">>, <<>>, StreamReply}

\* the bytes q come from an instrument that never stops sending
Endless(q) == q # <<>> /\ q[Len(q)] = More

\* the bytes still to come once the first of q was received
AfterRecv(q) ==
    IF Endless(q) THEN Append(SubSeq(q, 2, Len(q) - 1), Head(q)) \o <<More>>
    ELSE Tail(q)

\* the bytes to come once the reply to a further query is sent: nothing
\* arrives behind bytes that never end
AfterReply(q, reply) == IF Endless(q) THEN q ELSE q \o reply

\* chunks.append(b), of which the last MaxLine bytes are kept
Chunked(cs, b) ==
    IF Len(cs) < MaxLine THEN Append(cs, b) ELSE Append(Tail(cs), b)

\* draws of random.uniform(-10, 10), in tenths of a microvolt
NominalDraw == 5 * Micro * 10
OddDraws == {SimLow * Micro * 10, SimHigh * Micro * 10, SimHigh * Micro * 10 - 4,
             -2 * Micro * 10 - 4}

NoneStr == "None"
NoReport == [total |-> -1, fail |-> -1, data |-> <<>>]
NoRet == [kind |-> "none", val |-> NaN]

VARIABLES
    use_meas_once,    \* MeasurementRunner.use_meas_once
    use_inst_limits,  \* MeasurementRunner.use_inst_limits
    limits,           \* MeasurementRunner.limits
    dmm_simulate,     \* DmmClient.simulate
    sock,             \* DmmClient._sock is not None
    link,             \* the peer of the socket: "up" or "down"
    rx,               \* bytes the instrument has sent and recv has not returned
    relay_simulate,   \* RelayController.simulate
    lines,            \* states of the outputs A, B, C
    rows,             \* Logger.rows
    report,           \* what save_csv has written
    pc,               \* position of the worker in run()
    i,                \* loop index of run()
    v,                \* local v of run()
    chunks,           \* local chunks of read_line()
    ret,              \* outcome of the pending measure call
    events,           \* signals emitted so far
    closed,           \* close() calls made by run(), in order
    calls,            \* number of calls of each DmmClient operation
    outcomes,         \* outcome of the measure call of each visit so far
    outer_fault,      \* the fault met outside the per-channel handlers
    left,             \* deviations the environment may still choose
    settled,          \* the 20 ms wait was made since the last change of a line
    opened,           \* the outputs A, B, C this RelayController holds open
    rx_req,           \* for each byte of rx, the visit whose query it answers
    read_from,        \* the visits whose bytes the last read_line consumed
    start_enabled,    \* MainWindow.start_btn.isEnabled()
    gui_queue,        \* signals posted to the GUI thread and not yet handled
    workers,          \* the MeasurementRunner threads started so far
    last_call         \* the last call made on a component driven on its own

vars == <<use_meas_once, use_inst_limits, limits, dmm_simulate, sock, link, rx,
          relay_simulate, lines, rows, report, pc, i, v, chunks, ret, events,
          closed, calls, outcomes, outer_fault, left, settled, opened, rx_req,
          read_from, start_enabled, gui_queue, workers, last_call>>

\* the state of the main window and of the components driven on their own,
\* which no step of run() changes
aside == <<start_enabled, gui_queue, workers, last_call>>

\* the variables of each component
runner_vars == <<use_meas_once, use_inst_limits, limits, dmm_simulate, sock, link,
                 rx, i, v, chunks, ret, events, closed, calls, outcomes,
                 outer_fault, left, rx_req, read_from>>
relay_vars == <<relay_simulate, lines, opened, settled>>
logger_vars == <<rows, report>>
gui_vars == <<start_enabled, gui_queue, workers>>

NoCall == [op |-> "none", arg |-> 0, raised |-> FALSE,
           before |-> <<FALSE, FALSE, FALSE>>]

\* values of the variables of a component that a specification leaves alone
RunnerIdle ==
    /\ use_meas_once = FALSE
    /\ use_inst_limits = FALSE
    /\ limits = DefaultTable
    /\ dmm_simulate = FALSE
    /\ sock = FALSE
    /\ link = "up"
    /\ rx = <<>>
    /\ i = 0
    /\ v = NaN
    /\ chunks = <<>>
    /\ ret = NoRet
    /\ events = <<>>
    /\ closed = <<>>
    /\ calls = [configure |-> 0, limits |-> 0, limits_err |-> 0, measure |-> 0,
                once |-> 0]
    /\ outcomes = <<>>
    /\ outer_fault = "none"
    /\ left = 0
    /\ rx_req = <<>>
    /\ read_from = {}
RelayIdle ==
    /\ relay_simulate = TRUE
    /\ lines = <<FALSE, FALSE, FALSE>>
    /\ opened = <<FALSE, FALSE, FALSE>>
    /\ settled = TRUE
LoggerIdle ==
    /\ rows = <<>>
    /\ report = NoReport
GuiIdle ==
    /\ start_enabled = FALSE
    /\ gui_queue = <<>>
    /\ workers = <<>>

config == <<use_meas_once, use_inst_limits, limits, dmm_simulate, relay_simulate>>

Event(t, idx, data) == [t |-> t, i |-> idx, data |-> data]
Emit(t, idx, data) == events' = Append(events, Event(t, idx, data))

\* the state in which run() is entered. on_start always passes
\* use_meas_once=False; the one-shot strategy, which only another caller of
\* MeasurementRunner can choose, is entered with device-side limits, a real
\* selector and the default table
InitSweep(tables, budget) ==
    /\ use_meas_once \in BOOLEAN
    /\ use_inst_limits \in IF use_meas_once THEN {TRUE} ELSE BOOLEAN
    /\ limits \in IF use_meas_once THEN {DefaultTable} ELSE tables
    /\ dmm_simulate \in BOOLEAN
    /\ sock \in IF dmm_simulate THEN {FALSE} ELSE BOOLEAN
    /\ link = "up"
    /\ rx = <<>>
    /\ relay_simulate \in IF use_meas_once THEN {FALSE} ELSE BOOLEAN
    /\ lines = <<FALSE, FALSE, FALSE>>
    /\ rows = <<>>
    /\ report = NoReport
    /\ pc = "start"
    /\ i = 0
    /\ v = NaN
    /\ chunks = <<>>
    /\ ret = NoRet
    /\ events = <<>>
    /\ closed = <<>>
    /\ calls = [configure |-> 0, limits |-> 0, limits_err |-> 0, measure |-> 0,
                once |-> 0]
    /\ outcomes = <<>>
    /\ outer_fault = "none"
    /\ left = budget
    /\ settled = TRUE
    /\ opened = IF relay_simulate THEN <<FALSE, FALSE, FALSE>>
                ELSE <<TRUE, TRUE, TRUE>>
    /\ rx_req = <<>>
    /\ read_from = {}
    /\ GuiIdle
    /\ last_call = NoCall

Init == InitSweep(LimitTables, MaxDeviations)

\* ------------------------------------------------------------------------
\* relay.py
\* ------------------------------------------------------------------------
\* mutant of Bits: the masks of B and C are exchanged
BitsSwapped(idx) == <<idx % 2 = 1, (idx \div 4) % 2 = 1, (idx \div 2) % 2 = 1>>

\* a, b, c of select_index
Bits(idx) == <<idx % 2 = 1, (idx \div 2) % 2 = 1, (idx \div 4) % 2 = 1>>

\* RelayController.select_index(idx) on outputs cur; failAt = 0: no output
\* reports a fault, failAt = k: the k-th setState raises. slept: the
\* time.sleep(0.02) that ends the call was reached
SelectIndex(idx, cur, sim, failAt) ==
    IF ~(0 <= idx /\ idx <= 7) THEN [raised |-> TRUE, lines |-> cur, slept |-> FALSE]
    ELSE IF sim THEN [raised |-> FALSE, lines |-> cur, slept |-> TRUE]
    ELSE [raised |-> failAt # 0,
          lines |-> [k \in 1 .. 3 |->
                        IF failAt = 0 \/ k < failAt THEN Bits(idx)[k] ELSE cur[k]],
          slept |-> failAt = 0]

\* faults the outputs can report during one select_index
SelectFaults == IF relay_simulate THEN {0}
                ELSE {0} \cup (IF left > 0 THEN {1, 2, 3} ELSE {})

\* ------------------------------------------------------------------------
\* dmm.py
\* ------------------------------------------------------------------------
\* mutant of SendOutcomes: write looks for the socket before it looks at
\* simulate
SendOutcomesSocketFirst ==
    IF ~sock \/ link = "down" THEN {"DmmError"}
    ELSE IF dmm_simulate THEN {"ok"}
    ELSE {"ok"} \cup (IF left > 0 THEN {"fault"} ELSE {})

\* DmmClient.write: "ok", "DmmError" (no socket, or the peer is gone) or
\* "fault" (sendall raises, turned into DmmError)
SendOutcomes ==
    IF dmm_simulate THEN {"ok"}
    ELSE IF ~sock \/ link = "down" THEN {"DmmError"}
    ELSE {"ok"} \cup (IF left > 0 THEN {"fault"} ELSE {})

Cost(o) == IF o \in {"fault", "late", "eof", "oserror", "odd"} THEN 1 ELSE 0

\* read_line's decode followed by the strip and float of measure_dc_voltage
MeasureResult(bytes) ==
    IF ~DecodeOk(bytes) THEN [kind |-> "UnicodeDecodeError", val |-> NaN]
    ELSE LET p == ParseFloat(bytes)
         IN  IF p.ok THEN [kind |-> "value", val |-> p.val]
             ELSE [kind |-> "DmmError", val |-> NaN]

\* the simulated reading: float(f"{v:.6f}")
SimulatedReading(raw) == [kind |-> "value", val |-> Num(Round6(raw))]

DmmErrorRet == [kind |-> "DmmError", val |-> NaN]

\* ------------------------------------------------------------------------
\* logger.py
\* ------------------------------------------------------------------------
Row(idx, val, lo, hi, res, err) ==
    [index |-> idx, value |-> val, lower |-> lo, upper |-> hi,
     result |-> res, error |-> err]

\* mutant of AddRowTo: the new record is put in front of the others
AddRowToFront(rs, row) == <<row>> \o rs

\* Logger.add_row
AddRowTo(rs, row) == Append(rs, row)

Blank == [k |-> "blank", n |-> 0]
\* f"{value:.6f}" if value == value else ''
FormatValue(val) == IF ~IsNaN(val) THEN val ELSE Blank

\* Logger.save_csv: the data rows, Total and Fail
SaveCsv(rs) ==
    [total |-> Len(rs),
     fail |-> Cardinality({k \in 1 .. Len(rs) : ~rs[k].result}),
     data |-> [k \in 1 .. Len(rs) |->
                  [pin |-> rs[k].index, value |-> FormatValue(rs[k].value),
                   lower |-> rs[k].lower, upper |-> rs[k].upper,
                   result |-> IF rs[k].result THEN "PASS" ELSE "FAIL",
                   error |-> IF rs[k].error = NoneStr THEN "" ELSE rs[k].error]]]

\* ------------------------------------------------------------------------
\* meas_runner.py: pass/fail of one reading
\* ------------------------------------------------------------------------
\* result = (lower <= v <= upper) if (not (v != v)) else False
Judge(lo, val, hi) ==
    IF ~IsNaN(val) THEN FloatLe(lo, val) /\ FloatLe(val, hi) ELSE FALSE

\* mutant of ErrorMarker: every failed record is marked
ErrorMarkerOnFail(val, res) == IF res THEN NoneStr ELSE "NaN"

\* error=None if result else ("NaN" if (v != v) else None)
ErrorMarker(val, res) ==
    IF res THEN NoneStr ELSE IF IsNaN(val) THEN "NaN" ELSE NoneStr

\* ------------------------------------------------------------------------
\* meas_runner.py: MeasurementRunner.run, one action per step
\* ------------------------------------------------------------------------
\* mutant of RunConfigure: the device is configured under either strategy
RunConfigureAlways ==
    /\ pc = "start"
    /\ \E o \in SendOutcomes :
        /\ calls' = [calls EXCEPT !.configure = @ + 1]
        /\ left' = left - Cost(o)
        /\ pc' = IF o = "ok" THEN "loop" ELSE "except"
        /\ outer_fault' = IF o = "ok" THEN outer_fault ELSE "configure"
    /\ UNCHANGED <<config, aside, sock, link, rx, lines, rows, report, i, v,
                   chunks, ret, events, closed, outcomes, settled, opened,
                   rx_req, read_from>>

\* if not self.use_meas_once: self.dmm.configure_dc_voltage(rng, nplc)
RunConfigure ==
    /\ pc = "start"
    /\ \E o \in (IF use_meas_once THEN {"skip"} ELSE SendOutcomes) :
        /\ calls' = IF o = "skip" THEN calls
                    ELSE [calls EXCEPT !.configure = @ + 1]
        /\ left' = left - Cost(o)
        /\ pc' = IF o \in {"skip", "ok"} THEN "loop" ELSE "except"
        /\ outer_fault' = IF o \in {"skip", "ok"} THEN outer_fault ELSE "configure"
    /\ UNCHANGED <<config, aside, sock, link, rx, lines, rows, report, i, v,
                   chunks, ret, events, closed, outcomes, settled, opened,
                   rx_req, read_from>>

\* for i in range(total): self.status.emit(...)
StatusSelecting ==
    /\ pc = "loop"
    /\ i < total
    /\ Emit("status_select", i, <<>>)
    /\ pc' = "select"
    /\ UNCHANGED <<config, aside, sock, link, rx, lines, rows, report, i, v,
                   chunks, ret, closed, calls, outcomes, outer_fault, left,
                   settled, opened, rx_req, read_from>>

\* try: self.relay.select_index(i) except Exception: self.error.emit(msg)
Select ==
    /\ pc = "select"
    /\ \E f \in SelectFaults :
        LET r == SelectIndex(i, lines, relay_simulate, f)
        IN  /\ lines' = r.lines
            /\ settled' = (r.slept \/ (settled /\ r.lines = lines))
            /\ events' = IF r.raised
                         THEN Append(events, Event("error_select", i, <<>>))
                         ELSE events
            /\ left' = left - (IF f = 0 THEN 0 ELSE 1)
    /\ pc' = "limits"
    /\ UNCHANGED <<config, aside, sock, link, rx, rows, report, i, v, chunks,
                   ret, closed, calls, outcomes, outer_fault, opened, rx_req,
                   read_from>>

\* mutant of ConfigLimits: a failure of configure_limits is not caught
ConfigLimitsAbort ==
    /\ pc = "limits"
    /\ \E o \in (IF use_inst_limits THEN SendOutcomes ELSE {"skip"}) :
        /\ calls' = IF o = "skip" THEN calls
                    ELSE IF o = "ok" THEN [calls EXCEPT !.limits = @ + 1]
                    ELSE [calls EXCEPT !.limits = @ + 1, !.limits_err = @ + 1]
        /\ left' = left - Cost(o)
        /\ pc' = IF o \in {"skip", "ok"} THEN "measure" ELSE "except"
    /\ UNCHANGED <<config, aside, sock, link, rx, lines, rows, report, i, v,
                   chunks, ret, events, closed, outcomes, outer_fault,
                   settled, opened, rx_req, read_from>>

\* if self.use_inst_limits: try: self.dmm.configure_limits(lower, upper, True)
\* except DmmError: logging.warning(...)
ConfigLimits ==
    /\ pc = "limits"
    /\ \E o \in (IF use_inst_limits THEN SendOutcomes ELSE {"skip"}) :
        /\ calls' = IF o = "skip" THEN calls
                    ELSE IF o = "ok" THEN [calls EXCEPT !.limits = @ + 1]
                    ELSE [calls EXCEPT !.limits = @ + 1, !.limits_err = @ + 1]
        /\ left' = left - Cost(o)
    /\ pc' = "measure"
    /\ UNCHANGED <<config, aside, sock, link, rx, lines, rows, report, i, v,
                   chunks, ret, events, closed, outcomes, outer_fault,
                   settled, opened, rx_req, read_from>>

\* measure_dc_voltage / measure_dc_voltage_once up to the write of the query
MeasureBegin ==
    /\ pc = "measure"
    /\ calls' = IF use_meas_once THEN [calls EXCEPT !.once = @ + 1]
                ELSE [calls EXCEPT !.measure = @ + 1]
    /\ read_from' = {}
    /\ IF dmm_simulate
       THEN \E raw \in {NominalDraw} \cup (IF left > 0 THEN OddDraws ELSE {}) :
               /\ ret' = SimulatedReading(raw)
               /\ left' = left - (IF raw = NominalDraw THEN 0 ELSE 1)
               /\ pc' = "meas_ret"
               /\ UNCHANGED <<rx, rx_req, chunks>>
       ELSE \E o \in SendOutcomes :
               IF o = "ok"
               THEN \E reply \in {NominalReply}
                                 \cup (IF left > 0 THEN OddReplies ELSE {}) :
                       /\ rx' = AfterReply(rx, reply)
                       /\ rx_req' = IF Endless(rx) THEN rx_req
                                    ELSE rx_req \o [k \in 1 .. Len(reply) |-> i]
                       /\ chunks' = <<>>
                       /\ left' = left - (IF reply = NominalReply THEN 0 ELSE 1)
                       /\ pc' = "recv"
                       /\ UNCHANGED ret
               ELSE /\ ret' = DmmErrorRet
                    /\ left' = left - Cost(o)
                    /\ pc' = "meas_ret"
                    /\ UNCHANGED <<rx, rx_req, chunks>>
    /\ UNCHANGED <<config, aside, sock, link, lines, rows, report, i, v,
                   events, closed, outcomes, outer_fault, settled, opened>>

\* what one recv(1) can do; an instrument that never stops sending delivers
\* every byte in time
RecvOutcomes ==
    IF link = "down" THEN {"closed"}
    ELSE IF Endless(rx) THEN {"data"}
    ELSE IF rx = <<>> THEN {"timeout"} \cup (IF left > 0 THEN {"eof", "oserror"} ELSE {})
    ELSE {"data"} \cup (IF left > 0 THEN {"late", "eof", "oserror"} ELSE {})

\* one turn of the loop of read_line; on the terminator, the return of
\* b''.join(chunks).decode('ascii') and the line.strip(), float(line) of the
\* caller
Recv ==
    /\ pc = "recv"
    /\ \E o \in RecvOutcomes :
        /\ left' = left - Cost(o)
        /\ CASE o = "data" ->
                 /\ rx' = AfterRecv(rx)
                 /\ rx_req' = IF Endless(rx)
                              THEN Append(SubSeq(rx_req, 2, Len(rx_req) - 1),
                                          Head(rx_req)) \o <<Head(rx_req)>>
                              ELSE Tail(rx_req)
                 /\ read_from' = read_from \cup {Head(rx_req)}
                 /\ IF Head(rx) = LF
                    THEN /\ ret' = MeasureResult(Append(chunks, Head(rx)))
                         /\ chunks' = <<>>
                         /\ pc' = "meas_ret"
                    ELSE /\ chunks' = Chunked(chunks, Head(rx))
                         /\ pc' = "recv"
                         /\ UNCHANGED ret
                 /\ UNCHANGED link
             [] o \in {"timeout", "late"} ->
                 /\ ret' = DmmErrorRet
                 /\ chunks' = <<>>
                 /\ pc' = "meas_ret"
                 /\ UNCHANGED <<rx, rx_req, read_from, link>>
             [] OTHER ->
                 /\ ret' = DmmErrorRet
                 /\ chunks' = <<>>
                 /\ link' = "down"
                 /\ rx' = <<>>
                 /\ rx_req' = <<>>
                 /\ pc' = "meas_ret"
                 /\ UNCHANGED read_from
    /\ UNCHANGED <<config, aside, sock, lines, rows, report, i, v, events,
                   closed, calls, outcomes, outer_fault, settled, opened>>

\* mutant of MeasureReturn: a failed measurement skips the rest of the visit
MeasureReturnSkip ==
    /\ pc = "meas_ret"
    /\ v' = IF ret.kind = "value" THEN ret.val ELSE NaN
    /\ events' = IF ret.kind = "DmmError"
                 THEN Append(events, Event("error_measure", i, <<>>))
                 ELSE events
    /\ pc' = IF ret.kind = "value" THEN "add_row"
             ELSE IF ret.kind = "DmmError" THEN "loop" ELSE "except"
    /\ i' = IF ret.kind = "DmmError" THEN i + 1 ELSE i
    /\ outcomes' = Append(outcomes, ret)
    /\ outer_fault' = IF ret.kind \in {"value", "DmmError"} THEN outer_fault
                      ELSE "measure"
    /\ ret' = NoRet
    /\ UNCHANGED <<config, aside, sock, link, rx, lines, rows, report, chunks,
                   closed, calls, left, settled, opened, rx_req, read_from>>

\* mutant of MeasureReturn: every error of the measurement is handled like
\* DmmError
MeasureReturnCatchAll ==
    /\ pc = "meas_ret"
    /\ v' = IF ret.kind = "value" THEN ret.val ELSE NaN
    /\ events' = IF ret.kind # "value"
                 THEN Append(events, Event("error_measure", i, <<>>))
                 ELSE events
    /\ pc' = "add_row"
    /\ outcomes' = Append(outcomes, ret)
    /\ outer_fault' = IF ret.kind \in {"value", "DmmError"} THEN outer_fault
                      ELSE "measure"
    /\ ret' = NoRet
    /\ UNCHANGED <<config, aside, sock, link, rx, lines, rows, report, i,
                   chunks, closed, calls, left, settled, opened, rx_req,
                   read_from>>

\* v = ... / except DmmError: self.error.emit(msg); v = float('nan')
MeasureReturn ==
    /\ pc = "meas_ret"
    /\ v' = IF ret.kind = "value" THEN ret.val ELSE NaN
    /\ events' = IF ret.kind = "DmmError"
                 THEN Append(events, Event("error_measure", i, <<>>))
                 ELSE events
    /\ pc' = IF ret.kind \in {"value", "DmmError"} THEN "add_row" ELSE "except"
    /\ outcomes' = Append(outcomes, ret)
    /\ outer_fault' = IF ret.kind \in {"value", "DmmError"} THEN outer_fault
                      ELSE "measure"
    /\ ret' = NoRet
    /\ UNCHANGED <<config, aside, sock, link, rx, lines, rows, report, i,
                   chunks, closed, calls, left, settled, opened, rx_req,
                   read_from>>

\* result = ...; self.logger.add_row(i, v, lower, upper, result, error=...)
AddRow ==
    /\ pc = "add_row"
    /\ LET lower == limits[i][1]
           upper == limits[i][2]
           result == Judge(lower, v, upper)
       IN  rows' = AddRowTo(rows, Row(i, v, lower, upper, result,
                                      ErrorMarker(v, result)))
    /\ pc' = "emit_row"
    /\ UNCHANGED <<config, aside, sock, link, rx, lines, report, i, v, chunks,
                   ret, events, closed, calls, outcomes, outer_fault, left,
                   settled, opened, rx_req, read_from>>

\* self.rowMeasured.emit(i, v, lower, upper, result)
EmitRow ==
    /\ pc = "emit_row"
    /\ LET lower == limits[i][1]
           upper == limits[i][2]
       IN  Emit("row", i, <<i, v, lower, upper, Judge(lower, v, upper)>>)
    /\ pc' = "status_done"
    /\ UNCHANGED <<config, aside, sock, link, rx, lines, rows, report, i, v,
                   chunks, ret, closed, calls, outcomes, outer_fault, left,
                   settled, opened, rx_req, read_from>>

\* self.status.emit(f"... {i} ..."); time.sleep(self.interval), then the next
\* turn of the for loop
StatusDone ==
    /\ pc = "status_done"
    /\ Emit("status_done", i, <<>>)
    /\ i' = i + 1
    /\ pc' = "loop"
    /\ UNCHANGED <<config, aside, sock, link, rx, lines, rows, report, v,
                   chunks, ret, closed, calls, outcomes, outer_fault, left,
                   settled, opened, rx_req, read_from>>

\* mutant of Save: completion is reported whether or not the file was written
SaveThenFinish ==
    /\ pc = "loop"
    /\ i = total
    /\ \E o \in {"ok"} \cup (IF left > 0 THEN {"oserror"} ELSE {}) :
        /\ left' = left - Cost(o)
        /\ report' = IF o = "ok" THEN SaveCsv(rows) ELSE report
        /\ pc' = "emit_finished"
        /\ outer_fault' = IF o = "ok" THEN outer_fault ELSE "save"
    /\ UNCHANGED <<config, aside, sock, link, rx, lines, rows, i, v, chunks,
                   ret, events, closed, calls, outcomes, settled, opened,
                   rx_req, read_from>>

\* csv_path = self.logger.save_csv()
Save ==
    /\ pc = "loop"
    /\ i = total
    /\ \E o \in {"ok"} \cup (IF left > 0 THEN {"oserror"} ELSE {}) :
        /\ left' = left - Cost(o)
        /\ report' = IF o = "ok" THEN SaveCsv(rows) ELSE report
        /\ pc' = IF o = "ok" THEN "emit_finished" ELSE "except"
        /\ outer_fault' = IF o = "ok" THEN outer_fault ELSE "save"
    /\ UNCHANGED <<config, aside, sock, link, rx, lines, rows, i, v, chunks,
                   ret, events, closed, calls, outcomes, settled, opened,
                   rx_req, read_from>>

\* self.finished.emit(csv_path)
EmitFinished ==
    /\ pc = "emit_finished"
    /\ Emit("finished", total, <<>>)
    /\ pc' = "close_dmm"
    /\ UNCHANGED <<config, aside, sock, link, rx, lines, rows, report, i, v,
                   chunks, ret, closed, calls, outcomes, outer_fault, left,
                   settled, opened, rx_req, read_from>>

\* except Exception as ex: ...; self.error.emit(msg)
Except ==
    /\ pc = "except"
    /\ Emit("error_runner", i, <<>>)
    /\ pc' = "close_dmm"
    /\ UNCHANGED <<config, aside, sock, link, rx, lines, rows, report, i, v,
                   chunks, ret, closed, calls, outcomes, outer_fault, left,
                   settled, opened, rx_req, read_from>>

\* DmmClient.close: an error of the socket's close is swallowed
DmmClose(hasSock, raises) == [sock |-> FALSE, raised |-> FALSE]

\* RelayController.close on a selector holding the outputs op; failAt = 0: no
\* close reports an error, failAt = k: the k-th close raises, which ends the
\* try block; the error is swallowed
RelayClose(sim, op, failAt) ==
    IF sim THEN [raised |-> FALSE, opened |-> op]
    ELSE [raised |-> FALSE,
          opened |-> [k \in 1 .. 3 |->
                         IF failAt = 0 \/ k < failAt THEN FALSE ELSE op[k]]]

\* mutant of CloseDmm: the two closes share one try, and the socket's error is
\* not swallowed, so a failing close of the device skips the selector's
CloseDmmNoCatch ==
    /\ pc = "close_dmm"
    /\ \E raises \in BOOLEAN :
        /\ sock' = FALSE
        /\ closed' = Append(closed, [who |-> "dmm", fault |-> sock /\ raises])
        /\ pc' = IF sock /\ raises THEN "done" ELSE "close_relay"
    /\ UNCHANGED <<config, aside, link, rx, lines, rows, report, i, v, chunks,
                   ret, events, calls, outcomes, outer_fault, left, settled,
                   opened, rx_req, read_from>>

\* finally: try: self.dmm.close() except Exception: pass
CloseDmm ==
    /\ pc = "close_dmm"
    /\ \E raises \in BOOLEAN :
        LET r == DmmClose(sock, raises)
        IN  /\ sock' = r.sock
            /\ closed' = Append(closed, [who |-> "dmm", fault |-> sock /\ raises])
    /\ pc' = "close_relay"
    /\ UNCHANGED <<config, aside, link, rx, lines, rows, report, i, v, chunks,
                   ret, events, calls, outcomes, outer_fault, left, settled,
                   opened, rx_req, read_from>>

\* try: self.relay.close() except Exception: pass
CloseRelay ==
    /\ pc = "close_relay"
    /\ \E failAt \in 0 .. 3 :
        LET r == RelayClose(relay_simulate, opened, failAt)
        IN  /\ opened' = r.opened
            /\ closed' = Append(closed, [who |-> "relay",
                                         fault |-> ~relay_simulate /\ failAt # 0])
    /\ pc' = "done"
    /\ UNCHANGED <<config, aside, sock, link, rx, lines, rows, report, i, v,
                   chunks, ret, events, calls, outcomes, outer_fault, left,
                   settled, rx_req, read_from>>

Next ==
    \/ RunConfigure
    \/ StatusSelecting
    \/ Select
    \/ ConfigLimits
    \/ MeasureBegin
    \/ Recv
    \/ MeasureReturn
    \/ AddRow
    \/ EmitRow
    \/ StatusDone
    \/ Save
    \/ EmitFinished
    \/ Except
    \/ CloseDmm
    \/ CloseRelay

Spec == Init /\ [][Next]_vars

\* the sweep under the default limits, with one more deviation
InitDeep == InitSweep({DefaultTable}, MaxDeviations + 1)

SpecDeep == InitDeep /\ [][Next]_vars

\* run() is a thread that keeps running: a step it can take is taken. The
\* instrument and the Phidget library owe the sweep nothing
SpecLive == Init /\ [][Next]_vars /\ WF_vars(Next)

\* ------------------------------------------------------------------------
\* relay.py: a RelayController driven on its own
\* ------------------------------------------------------------------------
\* arguments of select_index: every channel and one integer on each side
SelIndices == -1 .. total

\* mutant of RelayNew: a failed attach is logged and leaves simulate as it was
RelayNewNoFallback(simArg, available, failAt) ==
    IF simArg \/ ~available
    THEN [simulate |-> TRUE, opened |-> <<FALSE, FALSE, FALSE>>, failed |-> 0,
          raised |-> FALSE]
    ELSE [simulate |-> FALSE,
          opened |-> [k \in 1 .. 3 |-> failAt = 0 \/ k < failAt],
          failed |-> failAt, raised |-> FALSE]

\* RelayController.__init__(simulate=simArg) with Phidget22 importable or not;
\* failAt = 0: the three outputs attach, failAt = k: the k-th
\* openWaitForAttachment raises PhidgetException. failed is the attach that
\* raised, 0 if none did or none was tried
RelayNew(simArg, available, failAt) ==
    IF simArg \/ ~available
    THEN [simulate |-> TRUE, opened |-> <<FALSE, FALSE, FALSE>>, failed |-> 0,
          raised |-> FALSE]
    ELSE [simulate |-> failAt # 0,
          opened |-> [k \in 1 .. 3 |-> failAt = 0 \/ k < failAt],
          failed |-> failAt, raised |-> FALSE]

RelayInit ==
    /\ pc = "relay_new"
    /\ \E simArg \in BOOLEAN, available \in BOOLEAN, failAt \in 0 .. 3 :
        LET r == RelayNew(simArg, available, failAt)
        IN  /\ relay_simulate' = r.simulate
            /\ opened' = r.opened
            /\ last_call' = [op |-> "init", arg |-> r.failed, raised |-> r.raised,
                             before |-> lines]
    /\ pc' = "relay_ready"
    /\ UNCHANGED <<runner_vars, logger_vars, gui_vars, lines, settled>>

\* a call of select_index
RelaySelect ==
    /\ pc = "relay_ready"
    /\ \E idx \in SelIndices, failAt \in 0 .. 3 :
        LET r == SelectIndex(idx, lines, relay_simulate, failAt)
        IN  /\ lines' = r.lines
            /\ settled' = (r.slept \/ (settled /\ r.lines = lines))
            /\ last_call' = [op |-> "select", arg |-> idx, raised |-> r.raised,
                             before |-> lines]
    /\ UNCHANGED <<runner_vars, logger_vars, gui_vars, relay_simulate, opened, pc>>

\* a call of close
RelayShut ==
    /\ pc \in {"relay_ready", "relay_closed"}
    /\ \E failAt \in 0 .. 3 :
        LET r == RelayClose(relay_simulate, opened, failAt)
        IN  /\ opened' = r.opened
            /\ last_call' = [op |-> "close", arg |-> failAt, raised |-> r.raised,
                             before |-> opened, prev |-> last_call.op]
    /\ pc' = "relay_closed"
    /\ UNCHANGED <<runner_vars, logger_vars, gui_vars, relay_simulate, lines,
                   settled>>

InitRelay ==
    /\ RunnerIdle
    /\ RelayIdle
    /\ LoggerIdle
    /\ GuiIdle
    /\ last_call = NoCall
    /\ pc = "relay_new"

NextRelay ==
    \/ RelayInit
    \/ RelaySelect
    \/ RelayShut

SpecRelay == InitRelay /\ [][NextRelay]_vars

\* ------------------------------------------------------------------------
\* dmm.py: a DmmClient driven on its own
\* ------------------------------------------------------------------------
\* whether DmmClient has a method query: the class defines connect, close,
\* write, read_line, configure_dc_voltage, configure_limits, clear_limits,
\* query_limit_fail, measure_dc_voltage and measure_dc_voltage_once
HasQuery == FALSE

\* what the instrument does with a query: it answers with a number or it does
\* not answer (the command is unknown to it, the read times out)
Answer(n) == [kind |-> "value", n |-> n]
NoAnswer == [kind |-> "DmmError", n |-> 0]
PrimaryAnswers == {Answer(0), Answer(1), NoAnswer}
ConditionAnswers == {Answer(0), Answer(1), Answer(2048), Answer(4096),
                     Answer(6144), NoAnswer}

\* self.query(cmd): the attribute lookup on an object without that method
Query(answer) ==
    IF HasQuery THEN answer ELSE [kind |-> "AttributeError", n |-> 0]

\* DmmClient.query_limit_fail with the instrument's answers to the two
\* queries: what it returns or raises
QueryLimitFail(primary, cond) ==
    LET first == Query(primary)
    IN  IF first.kind = "value"
        THEN [kind |-> "bool", val |-> first.n = 1]
        ELSE LET second == Query(cond)
             IN  IF second.kind = "value"
                 THEN [kind |-> "bool",
                       val |-> \/ (second.n \div 2048) % 2 = 1
                               \/ (second.n \div 4096) % 2 = 1]
                 ELSE [kind |-> second.kind, val |-> FALSE]

\* write('READ?'), read_line and float of one whole reply: a reply without
\* its terminator ends in the timeout of read_line
ReadAndParse(reply) ==
    IF reply # <<>> /\ reply[Len(reply)] = LF THEN MeasureResult(reply)
    ELSE DmmErrorRet

\* the client's socket, mode and link, as a call finds them
DmmState == <<sock, dmm_simulate, link = "up">>

dmm_rest == <<use_meas_once, use_inst_limits, limits, i, v, chunks, events,
              closed, calls, outcomes, outer_fault, left, rx_req, read_from>>

\* DmmClient.__init__
DmmNew ==
    /\ pc = "dmm_new"
    /\ \E simulate \in BOOLEAN : dmm_simulate' = simulate
    /\ last_call' = [op |-> "dmm_init", arg |-> 0, raised |-> FALSE,
                     before |-> DmmState, prev |-> last_call.op]
    /\ pc' = "dmm_ready"
    /\ UNCHANGED <<dmm_rest, relay_vars, logger_vars, gui_vars, sock, link, rx,
                   ret>>

\* DmmClient.connect
DmmConnect ==
    /\ pc = "dmm_ready"
    /\ \E ok \in BOOLEAN :
        /\ sock' = IF dmm_simulate THEN sock ELSE (ok \/ sock)
        /\ link' = IF ~dmm_simulate /\ ok THEN "up" ELSE link
        /\ ret' = IF dmm_simulate \/ ok THEN NoRet ELSE DmmErrorRet
        /\ last_call' = [op |-> "dmm_connect", arg |-> 0,
                         raised |-> ~dmm_simulate /\ ~ok,
                         before |-> DmmState, prev |-> last_call.op]
    /\ UNCHANGED <<dmm_rest, relay_vars, logger_vars, gui_vars, dmm_simulate,
                   rx, pc>>

\* DmmClient.close; raises tells whether the socket's close raised
DmmShut ==
    /\ pc = "dmm_ready"
    /\ \E raises \in BOOLEAN :
        LET r == DmmClose(sock, raises)
        IN  /\ sock' = r.sock
            /\ ret' = NoRet
            /\ last_call' = [op |-> "dmm_close", arg |-> 0, raised |-> r.raised,
                             before |-> DmmState, prev |-> last_call.op]
    /\ UNCHANGED <<dmm_rest, relay_vars, logger_vars, gui_vars, dmm_simulate,
                   link, rx, pc>>

\* DmmClient.write
DmmWrite ==
    /\ pc = "dmm_ready"
    /\ \E o \in SendOutcomes \cup (IF ~dmm_simulate /\ sock /\ link = "up"
                                   THEN {"fault", "gone"} ELSE {}) :
        /\ ret' = IF o = "ok" THEN NoRet ELSE DmmErrorRet
        /\ link' = IF o = "gone" THEN "down" ELSE link
        /\ last_call' = [op |-> "dmm_write", arg |-> 0, raised |-> o # "ok",
                         before |-> DmmState, prev |-> last_call.op]
    /\ UNCHANGED <<dmm_rest, relay_vars, logger_vars, gui_vars, dmm_simulate,
                   sock, rx, pc>>

\* DmmClient.measure_dc_voltage
DmmMeasure ==
    /\ pc = "dmm_ready"
    /\ \/ /\ dmm_simulate
          /\ \E raw \in {NominalDraw} \cup OddDraws : ret' = SimulatedReading(raw)
       \/ /\ ~dmm_simulate
          /\ ~sock \/ link = "down"
          /\ ret' = DmmErrorRet
       \/ /\ ~dmm_simulate
          /\ sock /\ link = "up"
          /\ \E reply \in ({NominalReply} \cup OddReplies) \ {StreamReply} :
                ret' = ReadAndParse(reply)
    /\ last_call' = [op |-> "dmm_measure", arg |-> 0,
                     raised |-> ret'.kind # "value",
                     before |-> DmmState, prev |-> last_call.op]
    /\ UNCHANGED <<dmm_rest, relay_vars, logger_vars, gui_vars, dmm_simulate,
                   sock, link, rx, pc>>

\* DmmClient.query_limit_fail
DmmQueryLimitFail ==
    /\ pc = "dmm_ready"
    /\ \E primary \in PrimaryAnswers, cond \in ConditionAnswers :
        /\ ret' = QueryLimitFail(primary, cond)
        /\ last_call' = [op |-> "query_limit_fail", arg |-> <<primary, cond>>,
                         raised |-> ret'.kind # "bool",
                         before |-> DmmState, prev |-> last_call.op]
    /\ UNCHANGED <<dmm_rest, relay_vars, logger_vars, gui_vars, dmm_simulate,
                   sock, link, rx, pc>>

InitDmm ==
    /\ RunnerIdle
    /\ RelayIdle
    /\ LoggerIdle
    /\ GuiIdle
    /\ last_call = NoCall
    /\ pc = "dmm_new"

NextDmm ==
    \/ DmmNew
    \/ DmmConnect
    \/ DmmShut
    \/ DmmWrite
    \/ DmmMeasure
    \/ DmmQueryLimitFail

SpecDmm == InitDmm /\ [][NextDmm]_vars

\* ------------------------------------------------------------------------
\* logger.py: a Logger driven on its own
\* ------------------------------------------------------------------------
\* values of the records given to add_row, in microvolts
LogValues == {Num(5), Num(6), Num(-2), NaN, PosInf, NegInf}

Abs(x) == IF x < 0 THEN -x ELSE x
Range(q) == {q[k] : k \in 1 .. Len(q)}

\* values = [v for (_, v, _, _, _, _) in self.rows if v == v]
StatValues(rs) ==
    SelectSeq([k \in 1 .. Len(rs) |-> rs[k].value], LAMBDA x : ~IsNaN(x))

AllFinite(vals) == \A k \in 1 .. Len(vals) : vals[k].k = "num"

RECURSIVE SumOf(_)
SumOf(vals) == IF vals = <<>> THEN 0 ELSE Head(vals).n + SumOf(Tail(vals))

RECURSIVE SumSqOf(_)
SumSqOf(vals) ==
    IF vals = <<>> THEN 0 ELSE Head(vals).n * Head(vals).n + SumSqOf(Tail(vals))

\* max(values) if values else ''
MaxCell(vals) ==
    IF vals = <<>> THEN Blank
    ELSE CHOOSE x \in Range(vals) : \A y \in Range(vals) : FloatLe(y, x)

\* min(values) if values else ''
MinCell(vals) ==
    IF vals = <<>> THEN Blank
    ELSE CHOOSE x \in Range(vals) : \A y \in Range(vals) : FloatLe(x, y)

\* f"{mean(values):.6f}": the exact mean rounded to a microvolt, either
\* neighbour when it lies half way (the double that holds it decides); inf
\* when the values hold an infinity, nan when they hold both
MeanCells(vals) ==
    IF vals = <<>> THEN {Blank}
    ELSE IF AllFinite(vals)
    THEN LET n == Len(vals)
             t == SumOf(vals)
             q == (t - (t % n)) \div n
         IN  {Num(a) : a \in {b \in {q, q + 1} : 2 * Abs(n * b - t) <= n}}
    ELSE IF PosInf \in Range(vals) /\ NegInf \in Range(vals) THEN {NaN}
    ELSE IF PosInf \in Range(vals) THEN {PosInf}
    ELSE {NegInf}

\* mutant of PopVarianceDen: the sample variance, as statistics.stdev uses
SampleVarianceDen(n) == IF n > 1 THEN n * (n - 1) ELSE n * n

\* pstdev(values) squared is (n * sum(x^2) - sum(x)^2) / n^2: the denominator
PopVarianceDen(n) == n * n

\* f"{pstdev(values):.6f}" of finite values: the root of the population
\* variance rounded to a microvolt, either neighbour when it lies half way
StdCells(vals) ==
    IF vals = <<>> THEN {Blank}
    ELSE IF AllFinite(vals)
    THEN LET n == Len(vals)
             num == n * SumSqOf(vals) - SumOf(vals) * SumOf(vals)
             den == PopVarianceDen(n)
             top == MaxCell(vals).n - MinCell(vals).n
         IN  {Num(r) : r \in {x \in 0 .. 2 * top :
                                 /\ x = 0 \/ (2 * x - 1) * (2 * x - 1) * den <= 4 * num
                                 /\ 4 * num <= (2 * x + 1) * (2 * x + 1) * den}}
    ELSE {NaN}

\* what pstdev does with an infinite value: it raises AttributeError
\* (statistics of Python 3.11 and later) or returns nan (earlier versions)
PstdevOnInf == {"AttributeError", "nan"}

SummaryLabels == <<"Total", "Fail", "Max", "Min", "Average", "Std Dev", "CPK">>

\* Logger.save_csv: the rows in the file once the call has ended. The
\* statistics are computed after the data rows were written and before the
\* blank row is, so a call that raises there leaves the header and the data
\* rows only
WriteCsv(rs, avg, sd, raises) ==
    LET base == SaveCsv(rs)
        vals == StatValues(rs)
        head == <<[kind |-> "header"]>>
        data == [k \in 1 .. Len(rs) |-> [kind |-> "data", cells |-> base.data[k]]]
        cells == <<base.total, base.fail, MaxCell(vals), MinCell(vals), avg, sd,
                   NoneStr>>
        tail == <<[kind |-> "blank"]>>
                  \o [j \in 1 .. 7 |-> [kind |-> "summary",
                                         label |-> SummaryLabels[j],
                                         cell |-> cells[j]]]
    IN  [raised |-> raises,
         file |-> IF raises THEN head \o data ELSE head \o data \o tail]

\* a call of add_row
LoggerAddRow ==
    /\ pc = "logger"
    /\ Len(rows) < MaxRows
    /\ \E val \in LogValues, res \in BOOLEAN :
        rows' = AddRowTo(rows, Row(Len(rows), val, DefaultBound[1],
                                   DefaultBound[2], res, ErrorMarker(val, res)))
    /\ last_call' = [op |-> "add_row", arg |-> 0, raised |-> FALSE,
                     before |-> rows]
    /\ UNCHANGED <<runner_vars, relay_vars, gui_vars, report, pc>>

\* a call of save_csv
LoggerSave ==
    /\ pc = "logger"
    /\ LET vals == StatValues(rows)
       IN  \E py \in PstdevOnInf, avg \in MeanCells(vals), sd \in StdCells(vals) :
              LET raises == ~AllFinite(vals) /\ py = "AttributeError"
              IN  /\ report' = WriteCsv(rows, avg, sd, raises)
                  /\ last_call' = [op |-> "save", arg |-> 0, raised |-> raises,
                                   before |-> rows]
    /\ UNCHANGED <<runner_vars, relay_vars, gui_vars, rows, pc>>

InitLogger ==
    /\ RunnerIdle
    /\ RelayIdle
    /\ LoggerIdle
    /\ GuiIdle
    /\ last_call = NoCall
    /\ pc = "logger"

NextLogger ==
    \/ LoggerAddRow
    \/ LoggerSave

SpecLogger == InitLogger /\ [][NextLogger]_vars

\* ------------------------------------------------------------------------
\* gui_main.py: the window, its Start button and the workers it starts
\* ------------------------------------------------------------------------
\* a worker's phases between start() and the end of run()
ActivePhases == {"run", "close_dmm", "close_relay"}

\* workers whose phase is ph
InPhase(ph) == {k \in 1 .. Len(workers) : workers[k].phase = ph}

\* MainWindow.on_start: Start is pressed. The button is disabled first; a
\* RelayController and a DmmClient are built (a port or timeout text that is
\* no number raises after the RelayController exists and before anything is
\* started), the client connects or falls back to simulation, and a new
\* MeasurementRunner is started
OnStart ==
    /\ pc = "gui"
    /\ start_enabled
    /\ Len(workers) < MaxSweeps
    /\ start_enabled' = FALSE
    /\ \E simulate \in BOOLEAN, attach_ok \in BOOLEAN, text_ok \in BOOLEAN,
          connect_ok \in BOOLEAN :
        workers' = Append(workers,
            [phase |-> IF text_ok THEN "run" ELSE "never",
             visit |-> 0,
             sock |-> text_ok /\ ~simulate /\ connect_ok,
             lines |-> ~simulate /\ attach_ok])
    /\ UNCHANGED <<runner_vars, relay_vars, logger_vars, last_call, pc,
                   gui_queue>>

\* MeasurementRunner.run: one channel visit of worker k
WorkerVisit(k) ==
    /\ pc = "gui"
    /\ workers[k].phase = "run"
    /\ workers[k].visit < total
    /\ workers' = [workers EXCEPT ![k].visit = @ + 1]
    /\ UNCHANGED <<runner_vars, relay_vars, logger_vars, last_call, pc,
                   start_enabled, gui_queue>>

\* MeasurementRunner.run: after the last visit the report is saved and
\* finished is emitted; the signal is queued to the window's thread and the
\* worker goes on to its finally block
WorkerFinish(k) ==
    /\ pc = "gui"
    /\ workers[k].phase = "run"
    /\ workers[k].visit = total
    /\ gui_queue' = Append(gui_queue, "finished")
    /\ workers' = [workers EXCEPT ![k].phase = "close_dmm"]
    /\ UNCHANGED <<runner_vars, relay_vars, logger_vars, last_call, pc,
                   start_enabled>>

\* MeasurementRunner.run: an exception leaves the loop; error is emitted
WorkerFail(k) ==
    /\ pc = "gui"
    /\ workers[k].phase = "run"
    /\ gui_queue' = Append(gui_queue, "error")
    /\ workers' = [workers EXCEPT ![k].phase = "close_dmm"]
    /\ UNCHANGED <<runner_vars, relay_vars, logger_vars, last_call, pc,
                   start_enabled>>

\* MeasurementRunner.run, finally: self.dmm.close()
WorkerCloseDmm(k) ==
    /\ pc = "gui"
    /\ workers[k].phase = "close_dmm"
    /\ workers' = [workers EXCEPT ![k].phase = "close_relay", ![k].sock = FALSE]
    /\ UNCHANGED <<runner_vars, relay_vars, logger_vars, last_call, pc,
                   start_enabled, gui_queue>>

\* MeasurementRunner.run, finally: self.relay.close(), which releases the
\* outputs unless closing one of them fails; run() returns
WorkerCloseRelay(k) ==
    /\ pc = "gui"
    /\ workers[k].phase = "close_relay"
    /\ \E released \in BOOLEAN :
        workers' = [workers EXCEPT ![k].phase = "done",
                                   ![k].lines = @ /\ ~released]
    /\ UNCHANGED <<runner_vars, relay_vars, logger_vars, last_call, pc,
                   start_enabled, gui_queue>>

\* MainWindow.on_finished: the window's thread handles a finished signal
OnFinished ==
    /\ pc = "gui"
    /\ gui_queue # <<>>
    /\ Head(gui_queue) = "finished"
    /\ gui_queue' = Tail(gui_queue)
    /\ start_enabled' = TRUE
    /\ UNCHANGED <<runner_vars, relay_vars, logger_vars, last_call, pc, workers>>

\* MainWindow.on_error: the window's thread handles an error signal
OnError ==
    /\ pc = "gui"
    /\ gui_queue # <<>>
    /\ Head(gui_queue) = "error"
    /\ gui_queue' = Tail(gui_queue)
    /\ UNCHANGED <<runner_vars, relay_vars, logger_vars, last_call, pc, workers,
                   start_enabled>>

InitGui ==
    /\ RunnerIdle
    /\ RelayIdle
    /\ LoggerIdle
    /\ start_enabled = TRUE
    /\ gui_queue = <<>>
    /\ workers = <<>>
    /\ last_call = NoCall
    /\ pc = "gui"

NextGui ==
    \/ OnStart
    \/ \E k \in 1 .. Len(workers) : WorkerVisit(k)
    \/ \E k \in 1 .. Len(workers) : WorkerFinish(k)
    \/ \E k \in 1 .. Len(workers) : WorkerFail(k)
    \/ \E k \in 1 .. Len(workers) : WorkerCloseDmm(k)
    \/ \E k \in 1 .. Len(workers) : WorkerCloseRelay(k)
    \/ OnFinished
    \/ OnError

SpecGui == InitGui /\ [][NextGui]_vars

\* ------------------------------------------------------------------------
\* Vocabulary of the properties
\* ------------------------------------------------------------------------
HasEvent(t) == \E k \in 1 .. Len(events) : events[k].t = t
HasEventAt(t, c) == \E k \in 1 .. Len(events) : events[k].t = t /\ events[k].i = c
EventCount(t) == Cardinality({k \in 1 .. Len(events) : events[k].t = t})
Finishing == pc \in {"close_dmm", "close_relay", "done"}

\* lower <= value <= upper read on the extended real line
Huge == 2000 * Micro
Ext(x) == CASE x.k = "pinf" -> Huge [] x.k = "ninf" -> -Huge [] OTHER -> x.n
InWindow(lo, val, hi) ==
    /\ lo.k # "nan" /\ val.k # "nan" /\ hi.k # "nan"
    /\ Ext(lo) <= Ext(val)
    /\ Ext(val) <= Ext(hi)

\* ------------------------------------------------------------------------
\* C1
\* ------------------------------------------------------------------------
\* C1 as stated: every sweep that returns leaves exactly 8 records, with the
\* indices 0..7 in increasing order.
C1_EightRecordsAlways ==
    pc = "done" =>
        /\ Len(rows) = total
        /\ \A k \in 1 .. Len(rows) : rows[k].index = k - 1

\* C1 amended: the records of a sweep always are those of channels 0..k-1 in
\* increasing order, without duplicate or skipped index, with k <= 8; k = 8 in
\* every sweep that returns without a failed initial configure and without an
\* error other than DmmError escaping a measurement (in particular in every
\* sweep that emits completion), and k < 8 in the sweeps that met one of these.
C1_RecordsArePrefix ==
    /\ Len(rows) <= total
    /\ \A k \in 1 .. Len(rows) : rows[k].index = k - 1
    /\ pc = "done" /\ outer_fault \notin {"configure", "measure"} => Len(rows) = total
    /\ pc = "done" /\ outer_fault \in {"configure", "measure"} => Len(rows) < total
    /\ HasEvent("finished") => Len(rows) = total

\* a sweep that met a failed measurement and still holds 8 records
C1_Witness ==
    /\ pc = "done"
    /\ Len(rows) = total
    /\ HasEvent("error_measure")

\* ------------------------------------------------------------------------
\* C2
\* ------------------------------------------------------------------------
\* C2: when the sweep has returned, for every channel c whose measure call
\* failed with DmmError an error notification for c was emitted, the record
\* of c holds nan and passed = false, and every other channel was selected,
\* measured and recorded.
C2_FailedReadingIsolated ==
    pc = "done" =>
        \A c \in Channels :
            (c < Len(outcomes) /\ outcomes[c + 1].kind = "DmmError") =>
                /\ HasEventAt("error_measure", c)
                /\ c < Len(rows)
                /\ IsNaN(rows[c + 1].value)
                /\ ~rows[c + 1].result
                /\ \A j \in Channels \ {c} :
                      /\ HasEventAt("status_select", j)
                      /\ j < Len(outcomes)
                      /\ j < Len(rows)
                      /\ rows[j + 1].index = j

\* ------------------------------------------------------------------------
\* C3
\* ------------------------------------------------------------------------
\* C3: when the sweep has returned, for every channel c whose select_index
\* failed an error notification was emitted, the visit of c made its
\* measurement and appended its record, and the channels c+1..7 were visited.
C3_SelectorFaultContinues ==
    pc = "done" =>
        \A c \in Channels :
            HasEventAt("error_select", c) =>
                /\ c < Len(outcomes)
                /\ c < Len(rows)
                /\ rows[c + 1].index = c
                /\ \A j \in (c + 1) .. (total - 1) :
                      HasEventAt("status_select", j) /\ j < Len(rows)

\* ------------------------------------------------------------------------
\* C4
\* ------------------------------------------------------------------------
\* C4: every record carries the bounds of its channel, and passed is true
\* exactly when the value is a number with lower <= value <= upper, both ends
\* included; a nan value never passes, and under a bound with lower > upper
\* no value passes.
C4_PassedIffInWindow ==
    \A k \in 1 .. Len(rows) :
        LET r == rows[k]
        IN  /\ r.lower = limits[r.index][1]
            /\ r.upper = limits[r.index][2]
            /\ r.result = InWindow(r.lower, r.value, r.upper)
            /\ IsNaN(r.value) => ~r.result
            /\ (r.lower.k = "num" /\ r.upper.k = "num" /\ r.lower.n > r.upper.n)
                  => ~r.result

\* a record that passes with its value equal to its lower bound
C4_Witness ==
    \E k \in 1 .. Len(rows) :
        /\ rows[k].result
        /\ rows[k].value = rows[k].lower
        /\ rows[k].value.k = "num"

\* ------------------------------------------------------------------------
\* C5
\* ------------------------------------------------------------------------
\* C5: run() stops only after it has asked the device client and then the
\* selector to close, whichever way the sweep ended and whether or not the
\* device's close met an error.
C5_BothClosedOnExit ==
    /\ (pc \in {"emit_finished", "except", "close_dmm", "close_relay"}
          \/ (pc = "loop" /\ i = total)) => ENABLED Next
    /\ pc = "done" =>
          /\ Len(closed) = 2
          /\ closed[1].who = "dmm"
          /\ closed[2].who = "relay"
    /\ pc = "close_relay" => Len(closed) = 1 /\ closed[1].who = "dmm"
    /\ pc \notin {"close_relay", "done"} => closed = <<>>

\* a sweep ended by a sweep-level error whose device close met an error, and
\* whose selector was still asked to close
C5_Witness ==
    /\ pc = "done"
    /\ outer_fault # "none"
    /\ closed[1].fault
    /\ closed[2].who = "relay"

\* ------------------------------------------------------------------------
\* C6
\* ------------------------------------------------------------------------
\* C6: the notifications are emitted in channel order, those of the channels
\* before i all precede the call of select_index(i), and completion is
\* emitted only once save has returned with the 8 rows written.
C6_NotificationOrder ==
    /\ \A p \in 1 .. (Len(events) - 1) : events[p].i <= events[p + 1].i
    /\ pc = "select" =>
          /\ events[Len(events)] = Event("status_select", i, <<>>)
          /\ \A p \in 1 .. (Len(events) - 1) : events[p].i < i
          /\ \A c \in 0 .. (i - 1) :
                HasEventAt("row", c) /\ HasEventAt("status_done", c)
    /\ HasEvent("finished") =>
          /\ Len(rows) = total
          /\ report = SaveCsv(rows)
          /\ Len(report.data) = total
          /\ events[Len(events)].t = "finished"
    /\ report = NoReport => ~HasEvent("finished")

\* a completed sweep in which a channel also emitted an error
C6_Witness ==
    /\ pc = "done"
    /\ HasEvent("finished")
    /\ HasEvent("error_measure")

\* ------------------------------------------------------------------------
\* C7
\* ------------------------------------------------------------------------
\* C7: once a fault occurred outside the per-channel handlers (failed initial
\* configure, error other than DmmError out of a measurement, failed save) the
\* sweep goes to its end: one sweep-level error notification, which is the
\* last notification, no completion and no report path; completion and the
\* sweep-level error never both occur.
C7_SweepLevelFault ==
    /\ outer_fault # "none" =>
          /\ pc \in {"except", "close_dmm", "close_relay", "done"}
          /\ ~HasEvent("finished")
    /\ outer_fault \in {"configure", "measure"} => report = NoReport
    /\ (outer_fault # "none" /\ Finishing) =>
          /\ EventCount("error_runner") = 1
          /\ events[Len(events)].t = "error_runner"
    /\ ~(HasEvent("finished") /\ HasEvent("error_runner"))
    /\ EventCount("finished") <= 1
    /\ EventCount("error_runner") <= 1
    /\ pc = "except" => outer_fault # "none"

\* a sweep ended by an error other than DmmError escaping a measurement
C7_Witness ==
    /\ pc = "done"
    /\ outer_fault = "measure"
    /\ Len(rows) < total

\* ------------------------------------------------------------------------
\* C8
\* ------------------------------------------------------------------------
\* the record of channel c as the outcome of its measure call and its bounds
\* alone determine it
RecordOf(c, out, lim) ==
    LET val == IF out.kind = "value" THEN out.val ELSE NaN
        res == InWindow(lim[c][1], val, lim[c][2])
    IN  Row(c, val, lim[c][1], lim[c][2], res,
            IF val.k = "nan" THEN "NaN" ELSE NoneStr)

\* C8: the records are a function of the measurement outcomes and the bounds
\* alone, so neither use_inst_limits nor the outcome of configure_limits
\* changes them; configure_limits is called only when use_inst_limits is set,
\* and its failure never takes the sweep to the sweep-level error handler.
C8_LimitsAdvisory ==
    /\ \A k \in 1 .. Len(rows) : rows[k] = RecordOf(k - 1, outcomes[k], limits)
    /\ ~use_inst_limits => calls.limits = 0
    /\ pc = "except" => outer_fault # "none"
    /\ pc = "measure" => calls.limits = (IF use_inst_limits THEN i + 1 ELSE 0)

\* a completed sweep of 8 records in which a configure_limits call failed
C8_Witness ==
    /\ pc = "done"
    /\ use_inst_limits
    /\ calls.limits_err > 0
    /\ Len(rows) = total
    /\ HasEvent("finished")

\* ------------------------------------------------------------------------
\* C9
\* ------------------------------------------------------------------------
\* C9: a measure call ends in one of two ways, a float or DmmError.
C9_FloatOrDmmError ==
    pc = "meas_ret" => ret.kind \in {"value", "DmmError"}

\* ------------------------------------------------------------------------
\* C10
\* ------------------------------------------------------------------------
SimulatedDefault ==
    /\ dmm_simulate
    /\ relay_simulate
    /\ limits = DefaultTable

\* C10: with a simulated device, a simulated selector and all bounds
\* (-10, 10), no channel emits an error, every record holds a number in
\* [-10, 10] and passed = true, and when save succeeds the sweep ends with 8
\* records, one completion notification, no error notification and Fail = 0.
C10_SimulatedSweepPasses ==
    SimulatedDefault =>
        /\ ~HasEvent("error_select")
        /\ ~HasEvent("error_measure")
        /\ outer_fault \in {"none", "save"}
        /\ \A k \in 1 .. Len(rows) :
              /\ rows[k].value.k = "num"
              /\ SimLow * Micro <= rows[k].value.n
              /\ rows[k].value.n <= SimHigh * Micro
              /\ rows[k].result
        /\ (pc = "done" /\ outer_fault = "none") =>
              /\ Len(rows) = total
              /\ EventCount("finished") = 1
              /\ ~HasEvent("error_runner")
              /\ report.total = total
              /\ report.fail = 0

\* a completed simulated sweep one of whose readings is the upper end 10
C10_Witness ==
    /\ SimulatedDefault
    /\ pc = "done"
    /\ HasEvent("finished")
    /\ \E k \in 1 .. Len(rows) : rows[k].value = Volts(SimHigh)

\* ------------------------------------------------------------------------
\* C11
\* ------------------------------------------------------------------------
\* C11: at every moment at most one worker is between its start and the end
\* of its run (the closing of its DmmClient and RelayController included),
\* at most one holds a device connection, at most one holds the selector's
\* output lines, and no two workers are visiting channels at the same time.
C11_OneSweepAtATime ==
    /\ Cardinality({k \in 1 .. Len(workers) : workers[k].phase \in ActivePhases}) <= 1
    /\ Cardinality({k \in 1 .. Len(workers) : workers[k].sock}) <= 1
    /\ Cardinality({k \in 1 .. Len(workers) : workers[k].lines}) <= 1
    /\ Cardinality(InPhase("run")) <= 1

\* ------------------------------------------------------------------------
\* C12
\* ------------------------------------------------------------------------
\* C12: after save_csv, the file holds, after its header, one data row per
\* record in insertion order, one blank row and the seven summary rows Total,
\* Fail, Max, Min, Average, Std Dev, CPK; Total is the number of records, Fail
\* the number of records with passed = false, which is the number of data
\* rows with Result FAIL; and the records are as they were before the call.
C12_SaveWritesReport ==
    last_call.op = "save" =>
        LET f == report.file
            n == Len(rows)
        IN  /\ rows = last_call.before
            /\ Len(f) = 1 + n + 1 + 7
            /\ f[1].kind = "header"
            /\ \A k \in 1 .. n :
                  /\ f[1 + k].kind = "data"
                  /\ f[1 + k].cells.pin = rows[k].index
                  /\ (f[1 + k].cells.result = "PASS") = rows[k].result
            /\ f[n + 2].kind = "blank"
            /\ \A j \in 1 .. 7 :
                  /\ f[n + 2 + j].kind = "summary"
                  /\ f[n + 2 + j].label = SummaryLabels[j]
            /\ f[n + 3].cell = n
            /\ f[n + 4].cell = Cardinality({k \in 1 .. n : ~rows[k].result})
            /\ f[n + 4].cell
                  = Cardinality({k \in 1 .. n : f[1 + k].cells.result = "FAIL"})

\* ------------------------------------------------------------------------
\* C13
\* ------------------------------------------------------------------------
\* A + 2*B + 4*C
LineValue(l) ==
    (IF l[1] THEN 1 ELSE 0) + 2 * (IF l[2] THEN 1 ELSE 0)
        + 4 * (IF l[3] THEN 1 ELSE 0)

\* C13: on a real selector, after a select_index(i) with i in 0..7 that
\* returned, A is bit 0 of i, B bit 1 and C bit 2, so A + 2*B + 4*C = i; a
\* select_index(i) with i outside 0..7 has failed and the three outputs are
\* as they were before the call.
C13_SelectSetsBits ==
    (last_call.op = "select" /\ ~relay_simulate) =>
        LET idx == last_call.arg
        IN  /\ (idx \in Channels /\ ~last_call.raised) =>
                  /\ LineValue(lines) = idx
                  /\ lines[1] = (idx % 2 = 1)
                  /\ lines[2] = ((idx \div 2) % 2 = 1)
                  /\ lines[3] = (idx \div 4 = 1)
            /\ idx \notin Channels =>
                  /\ last_call.raised
                  /\ lines = last_call.before

\* channel 6 selected on outputs that encoded another channel
C13_Witness ==
    /\ last_call.op = "select"
    /\ ~relay_simulate
    /\ last_call.arg = 6
    /\ ~last_call.raised
    /\ last_call.before # lines
    /\ lines = <<FALSE, TRUE, TRUE>>

\* ------------------------------------------------------------------------
\* C14
\* ------------------------------------------------------------------------
\* C14: after close() has returned, the selector holds none of the outputs it
\* opened.
C14_CloseReleasesAll ==
    last_call.op = "close" => opened = <<FALSE, FALSE, FALSE>>

\* ------------------------------------------------------------------------
\* C15
\* ------------------------------------------------------------------------
\* C15: a sweep started on a device client in simulation mode without a
\* socket (the state on_start leaves after a failed connect) meets no failed
\* configure and no failed measurement: every visit yields a fabricated
\* number, and when save succeeds the sweep has visited all 8 channels, holds
\* 8 records and ends with one completion notification and no sweep-level
\* error.
C15_FallbackSweepCompletes ==
    (dmm_simulate /\ ~sock) =>
        /\ outer_fault \in {"none", "save"}
        /\ \A k \in 1 .. Len(outcomes) :
              outcomes[k].kind = "value" /\ outcomes[k].val.k = "num"
        /\ ~HasEvent("error_measure")
        /\ (pc = "done" /\ outer_fault = "none") =>
              /\ Len(rows) = total
              /\ \A c \in Channels :
                    HasEventAt("status_select", c) /\ HasEventAt("row", c)
              /\ EventCount("finished") = 1
              /\ ~HasEvent("error_runner")

\* a completed sweep of a simulated device behind a real selector, the pair
\* only a failed connect produces, in which a selection failed
C15_Witness ==
    /\ dmm_simulate /\ ~sock /\ ~relay_simulate
    /\ pc = "done"
    /\ HasEvent("finished")
    /\ HasEvent("error_select")
    /\ Len(rows) = total

\* ------------------------------------------------------------------------
\* C16
\* ------------------------------------------------------------------------
\* C16: when the sweep has returned, the record of every channel whose
\* select_index failed has passed = false, and the record of every other
\* channel is the one its own measurement and bounds give.
C16_SelectorFaultFailsRecord ==
    pc = "done" =>
        \A c \in Channels :
            (HasEventAt("error_select", c) /\ c < Len(rows)) =>
                /\ ~rows[c + 1].result
                /\ \A j \in Channels \ {c} :
                      j < Len(rows) =>
                          rows[j + 1] = RecordOf(j, outcomes[j + 1], limits)

\* ------------------------------------------------------------------------
\* C17
\* ------------------------------------------------------------------------
ErrorEvents == {"error_select", "error_measure", "error_runner"}

\* a fault has occurred in the sweep: a failed selection, a failed
\* configure_limits, a failed or non-numeric measurement, a failed initial
\* configure or a failed save
FaultOccurred ==
    \/ HasEvent("error_select")
    \/ calls.limits_err > 0
    \/ \E k \in 1 .. Len(outcomes) :
          outcomes[k].kind # "value" \/ IsNaN(outcomes[k].val)
    \/ outer_fault # "none"

\* C17: when the sweep has returned after a fault, an error notification was
\* emitted.
C17_EveryFaultNotified ==
    (pc = "done" /\ FaultOccurred) =>
        \E k \in 1 .. Len(events) : events[k].t \in ErrorEvents

\* ------------------------------------------------------------------------
\* C18
\* ------------------------------------------------------------------------
\* the records whose value is not nan
RealRecords == {k \in 1 .. Len(rows) : rows[k].value.k # "nan"}

RECURSIVE Total1(_)
\* sum of the values of the records in ks
Total1(ks) ==
    IF ks = {} THEN 0
    ELSE LET k == CHOOSE x \in ks : TRUE IN rows[k].value.n + Total1(ks \ {k})

RECURSIVE Total2(_)
\* sum of the squares of the values of the records in ks
Total2(ks) ==
    IF ks = {} THEN 0
    ELSE LET k == CHOOSE x \in ks : TRUE
         IN  rows[k].value.n * rows[k].value.n + Total2(ks \ {k})

\* C18: in a summary that save_csv has written, Total counts every record;
\* Max, Min, Average and Std Dev are blank when no record has a value other
\* than nan; otherwise Max and Min are the largest and the smallest value of
\* the records whose value is not nan, and when these values are finite
\* Average is their arithmetic mean and Std Dev their population standard
\* deviation, both to the microvolt the file is written in.
C18_SummaryStatistics ==
    (last_call.op = "save" /\ ~report.raised) =>
        LET f == report.file
            n == Len(rows)
            m == Cardinality(RealRecords)
            mx == f[n + 5].cell
            mn == f[n + 6].cell
            avg == f[n + 7].cell
            sd == f[n + 8].cell
        IN  /\ f[n + 3].cell = n
            /\ m = 0 => (mx = Blank /\ mn = Blank /\ avg = Blank /\ sd = Blank)
            /\ m > 0 =>
                  /\ \E k \in RealRecords : rows[k].value = mx
                  /\ \E k \in RealRecords : rows[k].value = mn
                  /\ \A k \in RealRecords :
                        /\ InWindow(mn, rows[k].value, mx)
                  /\ (\A k \in RealRecords : rows[k].value.k = "num") =>
                        LET t1 == Total1(RealRecords)
                            t2 == Total2(RealRecords)
                            var4 == 4 * (m * t2 - t1 * t1)
                            lo == (2 * sd.n - 1) * (2 * sd.n - 1) * m * m
                            hi == (2 * sd.n + 1) * (2 * sd.n + 1) * m * m
                        IN  /\ avg.k = "num"
                            /\ 2 * Abs(m * avg.n - t1) <= m
                            /\ sd.k = "num"
                            /\ sd.n >= 0
                            /\ sd.n = 0 \/ lo <= var4
                            /\ var4 <= hi

\* a saved summary over the values -2, nan and 6 microvolts: Total 3, Average
\* 2, Std Dev 4
C18_Witness ==
    /\ last_call.op = "save"
    /\ ~report.raised
    /\ Len(rows) = 3
    /\ rows[1].value = Num(-2) /\ rows[2].value = NaN /\ rows[3].value = Num(6)
    /\ report.file[3 + 7].cell = Num(2)
    /\ report.file[3 + 8].cell = Num(4)

\* ------------------------------------------------------------------------
\* C19
\* ------------------------------------------------------------------------
\* C19: on a real device connection, a measure call of visit i that returns a
\* value has read the bytes of the reply to visit i's own query and no byte
\* of the reply to an earlier query.
C19_ReadingIsOwnReply ==
    (~dmm_simulate /\ pc = "meas_ret" /\ ret.kind = "value") => read_from = {i}

\* ------------------------------------------------------------------------
\* C20
\* ------------------------------------------------------------------------
\* C20: with a real selector, when the measurement of visit i is issued the
\* outputs encode i and the settle wait was made since their last change, and
\* a record with passed = true was measured with the outputs encoding its
\* channel.
C20_LinesEncodeChannel ==
    ~relay_simulate =>
        /\ pc = "measure" => (lines = Bits(i) /\ settled)
        /\ (pc = "emit_row" /\ rows[Len(rows)].result) => lines = Bits(i)

\* ------------------------------------------------------------------------
\* C21
\* ------------------------------------------------------------------------
\* Start has been pressed, no worker is running or closing and no signal is
\* waiting for the window: nothing is left that could enable Start
Quiescent ==
    /\ workers # <<>>
    /\ \A k \in 1 .. Len(workers) : workers[k].phase \in {"done", "never"}
    /\ gui_queue = <<>>

\* C21: once everything a press of Start has set off is over (on_start has
\* ended, the worker it started, if any, has returned and its signals have
\* been handled), the Start button is enabled again.
C21_StartReenabled == Quiescent => start_enabled

\* ------------------------------------------------------------------------
\* C22
\* ------------------------------------------------------------------------
\* C22: every sweep whose blocking calls each return or time out reaches the
\* end of run(), both dependents closed, whatever the instrument sends.
C22_SweepTerminates == <>(pc = "done")

\* ------------------------------------------------------------------------
\* C23
\* ------------------------------------------------------------------------
\* the row notifications emitted so far, in the order of their emission
RowEvents == SelectSeq(events, LAMBDA e : e.t = "row")

ReadsBegun == Len(outcomes) + (IF pc \in {"recv", "meas_ret"} THEN 1 ELSE 0)

\* C24: under the one-shot strategy configure_dc_voltage and
\* measure_dc_voltage are never called and every reading is a
\* measure_dc_voltage_once; under the configure-once strategy
\* configure_dc_voltage has been called exactly once as soon as run() is past
\* its first statement, so before any channel is selected, and every reading
\* is a measure_dc_voltage, never a measure_dc_voltage_once.
C24_StrategyFixed ==
    /\ use_meas_once =>
          /\ calls.configure = 0
          /\ calls.measure = 0
          /\ calls.once = ReadsBegun
    /\ ~use_meas_once =>
          /\ calls.once = 0
          /\ calls.measure = ReadsBegun
          /\ calls.configure = IF pc = "start" THEN 0 ELSE 1
          /\ events # <<>> => calls.configure = 1

\* a configure-once sweep that has returned after one configuration and eight
\* measure calls
C24_Witness ==
    /\ pc = "done"
    /\ ~use_meas_once
    /\ calls.configure = 1
    /\ calls.measure = total
    /\ calls.once = 0

\* ------------------------------------------------------------------------
\* C25
\* ------------------------------------------------------------------------
\* C25: a record is marked "NaN" exactly when its value is nan, and has no
\* marker otherwise, whether it passed or not; the record of a measurement
\* that failed with DmmError has a nan value and the marker.
C25_MarkerIffNaN ==
    \A k \in 1 .. Len(rows) :
        /\ rows[k].error \in {"NaN", NoneStr}
        /\ (rows[k].error = "NaN") = IsNaN(rows[k].value)
        /\ outcomes[k].kind = "DmmError" => rows[k].error = "NaN"

\* a sweep that has returned with a marked record of a failed measurement,
\* an unmarked record that failed its bounds and an unmarked one that passed
C25_Witness ==
    /\ pc = "done"
    /\ \E k \in 1 .. Len(rows) :
          outcomes[k].kind = "DmmError" /\ rows[k].error = "NaN"
    /\ \E k \in 1 .. Len(rows) :
          ~IsNaN(rows[k].value) /\ ~rows[k].result /\ rows[k].error = NoneStr
    /\ \E k \in 1 .. Len(rows) : rows[k].result /\ rows[k].error = NoneStr

\* ------------------------------------------------------------------------
\* C26
\* ------------------------------------------------------------------------
\* C26: a construction in which the attach of output A, B or C failed has
\* returned without raising and has left the selector in simulation mode; a
\* selector that is ready without its three outputs attached is in
\* simulation mode; and in simulation mode a select_index(i) with i in 0..7
\* returns without raising and leaves the three outputs as they were.
C26_AttachFailureSimulates ==
    /\ (last_call.op = "init" /\ last_call.arg # 0) =>
          (~last_call.raised /\ relay_simulate)
    /\ (pc = "relay_ready" /\ opened # <<TRUE, TRUE, TRUE>>) => relay_simulate
    /\ (last_call.op = "select" /\ relay_simulate /\ last_call.arg \in Channels) =>
          (~last_call.raised /\ lines = last_call.before)

\* channel 5 selected on a selector whose output A attached and whose output
\* B did not
C26_Witness ==
    /\ last_call.op = "select"
    /\ last_call.arg = 5
    /\ ~last_call.raised
    /\ relay_simulate
    /\ opened = <<TRUE, FALSE, FALSE>>
    /\ lines = <<FALSE, FALSE, FALSE>>

\* ------------------------------------------------------------------------
\* C27
\* ------------------------------------------------------------------------
\* bit 11 or bit 12 of the condition register
LimitBits(n) == (n \div 2048) % 2 = 1 \/ (n \div 4096) % 2 = 1

\* C27: on a connected device, a query_limit_fail whose first query is
\* answered returns true exactly when the answer is 1; one whose first query
\* is not answered and whose condition-register query is answered returns
\* true exactly when bit 11 or bit 12 of that answer is set; in both cases it
\* returns a boolean and does not raise.
C27_QueryLimitFail ==
    (last_call.op = "query_limit_fail" /\ ~dmm_simulate /\ sock /\ link = "up") =>
        LET primary == last_call.arg[1]
            cond == last_call.arg[2]
        IN  /\ primary.kind = "value" =>
                  (ret.kind = "bool" /\ ret.val = (primary.n = 1))
            /\ (primary.kind # "value" /\ cond.kind = "value") =>
                  (ret.kind = "bool" /\ ret.val = LimitBits(cond.n))

\* ------------------------------------------------------------------------
\* C28
\* ------------------------------------------------------------------------
\* C28: close() of the selector and close() of the device client return
\* without raising; a close() that follows a close() leaves the selector's
\* outputs, respectively the client's socket, mode and link, as it found
\* them; after the client's close() there is no socket, and a write or a
\* measurement on a client that is not simulated and has no socket fails
\* with DmmError.
C28_CloseIdempotent ==
    /\ last_call.op = "close" => ~last_call.raised
    /\ (last_call.op = "close" /\ last_call.prev = "close") =>
          opened = last_call.before
    /\ last_call.op = "dmm_close" => (~last_call.raised /\ ~sock)
    /\ (last_call.op = "dmm_close" /\ last_call.prev = "dmm_close") =>
          DmmState = last_call.before
    /\ (last_call.op \in {"dmm_write", "dmm_measure"} /\ ~dmm_simulate /\ ~sock) =>
          (last_call.raised /\ ret.kind = "DmmError")


====
